---- MODULE Spec2Model ----
(***************************************************************************)
(* Model of custom_components/econet300/api.py: the HTTP client            *)
(* (EconetClient) with its bounded retry loop, the API facade              *)
(* (Econet300Api) and the key-value cache the facade is built on.          *)
(*                                                                         *)
(* Every coroutine call is a task.  A task runs atomically between two     *)
(* awaits of an HTTP round trip (asyncio is cooperative), so one action    *)
(* is either the start of a facade operation up to its first request, or   *)
(* one HTTP round trip of _get together with everything the code does      *)
(* before the next request: the retry bookkeeping or, when _get ends, the  *)
(* rest of the facade operation.                                           *)
(***************************************************************************)
EXTENDS Integers, FiniteSets, Sequences, TLC

VARIABLES
    cache,          \* MemCache.data: key -> last value set
    uid,            \* Econet300Api._uid
    model_id,       \* Econet300Api._model_id
    sw_revision,    \* Econet300Api._sw_revision
    hw_version,     \* Econet300Api._hw_version
    task,           \* the coroutine calls: task[t] is one caller's call frame
    limits_fetches, \* history: bulk fetches of the limits registry started so far
    first_limits,   \* history: how the first bulk fetch of the limits ended
    last_limits,    \* history: how the latest bulk fetch of the limits ended
    host,           \* EconetClient._host, a string as the sequence of its characters
    host_arg,       \* history: the host given to EconetClient.__init__
    device,         \* the device: the value it applied last for each key, and for which frame
    last_ended      \* history: the frame whose call ended last (0: none yet)

identity == <<uid, model_id, sw_revision, hw_version>>
client == <<host, host_arg>>
limits_history == <<limits_fetches, first_limits, last_limits>>
history == <<limits_fetches, first_limits, last_limits, device, last_ended>>
vars == <<cache, uid, model_id, sw_revision, hw_version, task, limits_fetches,
          first_limits, last_limits, host, host_arg, device, last_ended>>

----------------------------------------------------------------------------
(* Bounds of the model.                                                    *)

\* the values written by set_param are 1..MaxValue
MaxValue == 2
\* limits_fetches counts up to MaxCount and stays there ("MaxCount or more")
MaxCount == 2

\* the call frames: the host runs one fetch cycle at a time (spec section 5)
Callers == {1}
Values == 1 .. MaxValue

\* the mapped parameter keys (values of EDITABLE_PARAMS_MAPPING_TABLE)
ParamKeys == {"1280", "1281"}
\* what map_param returns for a name that is not in the mapping table
None == "None"
Params == ParamKeys \cup {None}

----------------------------------------------------------------------------
(* Names imported from const.py.                                           *)

API_SYS_PARAMS_URI == "sysParams"
API_SYS_PARAMS_PARAM_UID == "uid"
API_SYS_PARAMS_PARAM_MODEL_ID == "controllerID"
API_SYS_PARAMS_PARAM_SW_REV == "softVer"
API_SYS_PARAMS_PARAM_HW_VER == "routerType"
API_REG_PARAMS_URI == "regParams"
API_REG_PARAMS_PARAM_DATA == "curr"
API_REG_PARAMS_DATA_URI == "regParamsData"
API_REG_PARAMS_DATA_PARAM_DATA == "data"
API_EDITABLE_PARAMS_LIMITS_URI == "rmCurrentDataParamsEdits"
API_EDITABLE_PARAMS_LIMITS_DATA == "data"
\* the registry of EconetClient.set_param's URL
SET_PARAM_URI == "rmCurrNewParam"

SysKeys == {API_SYS_PARAMS_PARAM_UID, API_SYS_PARAMS_PARAM_MODEL_ID,
            API_SYS_PARAMS_PARAM_SW_REV, API_SYS_PARAMS_PARAM_HW_VER}

----------------------------------------------------------------------------
(* What the device can answer.                                             *)

HTTP_OK == 200
HTTP_UNAUTHORIZED == 401
\* the statuses of the model that are neither 200 nor 401
OtherStatuses == {404, 500}

\* data of _get: Python None, or a parsed JSON object
NoData == [kind |-> "none"]
Json(body) == [kind |-> "json", body |-> body]
EmptyObj == [k \in {} |-> 0]

\* the values a device reports in sysParams: two devices (or firmware states),
\* each with its own value for every key
Devices == {"x", "y"}
SysValue(dev, key) ==
    IF dev = "x"
    THEN CASE key = API_SYS_PARAMS_PARAM_UID -> "uid-x"
           [] key = API_SYS_PARAMS_PARAM_MODEL_ID -> "model-x"
           [] key = API_SYS_PARAMS_PARAM_SW_REV -> "sw-x"
           [] OTHER -> "hw-x"
    ELSE CASE key = API_SYS_PARAMS_PARAM_UID -> "uid-y"
           [] key = API_SYS_PARAMS_PARAM_MODEL_ID -> "model-y"
           [] key = API_SYS_PARAMS_PARAM_SW_REV -> "sw-y"
           [] OTHER -> "hw-y"
\* the sets of keys a sysParams answer can hold: all, all but one, none
SysKeySets == {SysKeys, {}} \cup {SysKeys \ {k} : k \in SysKeys}
SysBodies == {[k \in S |-> SysValue(dev, k)] : S \in SysKeySets, dev \in Devices}

\* bodies answering a write: success marker, another marker, no result field
SetBodies == {[result |-> "OK"], [result |-> "ERROR"], EmptyObj}

\* the limits the device declares for a key, and the tables it can send
LimitsOf(k) == IF k = "1280" THEN [min |-> 0, max |-> 10] ELSE [min |-> 5, max |-> 20]
LimitsTables == {[k \in S |-> LimitsOf(k)] : S \in {ParamKeys, {"1280"}}}
LimitsBodies == {(API_EDITABLE_PARAMS_LIMITS_DATA :> tb) : tb \in LimitsTables}
                    \cup {EmptyObj}

\* the register envelopes: with the data key, or without it
RegParamsBodies == {(API_REG_PARAMS_PARAM_DATA :> [tempCO |-> 60]), EmptyObj}
RegParamsDataBodies == {(API_REG_PARAMS_DATA_PARAM_DATA :> [mode |-> 3]), EmptyObj}

\* JSON bodies of a 200 answer of registry reg
Bodies(reg) ==
    CASE reg = API_SYS_PARAMS_URI -> SysBodies
      [] reg = SET_PARAM_URI -> SetBodies
      [] reg = API_EDITABLE_PARAMS_LIMITS_URI -> LimitsBodies
      [] reg = API_REG_PARAMS_URI -> RegParamsBodies
      [] OTHER -> RegParamsDataBodies

\* what resp.json() gives for a 200 answer: an object, or None for JSON null
JsonOf(reg) == {Json(b) : b \in Bodies(reg)} \cup {NoData}

\* one HTTP round trip as _get sees it.  "timeout" is a TimeoutError raised
\* anywhere inside the try block of _get; text is how reading the body of an
\* error answer went.
RespTimeout == [kind |-> "timeout", status |-> 0, text |-> "none", json |-> NoData]
RespStatus(s, tx, js) == [kind |-> "status", status |-> s, text |-> tx, json |-> js]

----------------------------------------------------------------------------
(* EconetClient.__init__ and the URLs.  A string is the sequence of its    *)
(* characters; the fixed parts of a URL after the host are one element     *)
(* each.                                                                   *)

HTTP == <<"h", "t", "t", "p", ":", "/", "/">>
HTTPS == <<"h", "t", "t", "p", "s", ":", "/", "/">>

\* Python's "p in s" for strings: p is a substring of s
Contains(p, s) ==
    \E i \in 1 .. (Len(s) - Len(p) + 1) : SubSeq(s, i, i + Len(p) - 1) = p

\* s begins with p
StartsWith(p, s) == Len(p) <= Len(s) /\ SubSeq(s, 1, Len(p)) = p

\* the hosts given to the constructor: a, http://a, https://a, ftp://a,
\* http:/a, ahttps://, the empty string
Hosts == {<<"a">>, HTTP \o <<"a">>, HTTPS \o <<"a">>,
          <<"f", "t", "p", ":", "/", "/", "a">>,
          <<"h", "t", "t", "p", ":", "/", "a">>,
          <<"a">> \o HTTPS, <<>>}
\* the host of the specifications that do not vary it
DefaultHost == <<"a">>

\* __init__ that looks for "http://" only
EconetClient_init_http_only(h) ==
    IF ~Contains(HTTP, h) THEN HTTP \o h ELSE h

\* __init__: the host stored for the host given
EconetClient_init(h) ==
    LET proto == {HTTP, HTTPS}
        not_contains == \A p \in proto : ~Contains(p, h)
    IN  IF not_contains THEN HTTP \o h ELSE h

\* the URL of fetch_sys_params(reg)
RegUrl(reg) == host \o <<"/econet/", reg>>

\* the URL of EconetClient.set_param(key, value)
SetParamUrl(key, value) ==
    host \o <<"/econet/", SET_PARAM_URI, "?newParamKey=", key,
              "&newParamValue=", ToString(value)>>

----------------------------------------------------------------------------
(* MemCache (mem_cache.py): exists, get, set on a dictionary.              *)

CacheExists(c, key) == key \in DOMAIN c
CacheGet(c, key) == c[key]
CacheSet(c, key, value) ==
    [k \in DOMAIN c \cup {key} |-> IF k = key THEN value ELSE c[k]]

----------------------------------------------------------------------------
(* Outcomes of a call.                                                     *)

NoOutcome == [kind |-> "none"]
ReturnNone == [kind |-> "return_none"]
Return(v) == [kind |-> "return", val |-> v]
Raise(e) == [kind |-> "raise", exc |-> e]

\* what _get gave its caller: nothing yet, data, or an exception
NotGot == [next |-> "none"]

\* a call frame: pc is idle, await (suspended in a round trip of _get) or done;
\* url and attempt are _get's variables; requests, timeouts, status, json and
\* got record what the call has done: requests issued, requests that timed
\* out, the last status received, the parsed body of the last answer and what
\* _get gave; applied says that the device has applied the write of the
\* request in flight
IdleTask == [pc |-> "idle", op |-> "none", param |-> None, value |-> 0,
             reg |-> "none", url |-> <<>>, attempt |-> 0, requests |-> 0,
             timeouts |-> 0, status |-> 0, json |-> NoData, applied |-> FALSE,
             got |-> NotGot, outcome |-> NoOutcome]

\* a frame at the first request of _get (attempt = 1) for registry reg
Calling(op, param, value, reg) ==
    [pc |-> "await", op |-> op, param |-> param, value |-> value,
     reg |-> reg,
     url |-> IF reg = SET_PARAM_URI THEN SetParamUrl(param, value) ELSE RegUrl(reg),
     attempt |-> 1, requests |-> 0, timeouts |-> 0, status |-> 0,
     json |-> NoData, applied |-> FALSE, got |-> NotGot, outcome |-> NoOutcome]

\* a frame of an operation that ended without any request
Ended(op, param, value, outcome) ==
    [pc |-> "done", op |-> op, param |-> param, value |-> value,
     reg |-> "none", url |-> <<>>, attempt |-> 0, requests |-> 0,
     timeouts |-> 0, status |-> 0, json |-> NoData, applied |-> FALSE,
     got |-> NotGot, outcome |-> outcome]

----------------------------------------------------------------------------
(* EconetClient._get                                                       *)

max_attempts == 5

\* GetIteration with the 401 test left out: 401 falls into the "not OK" branch
GetIteration_no_auth_check(resp) ==
    IF resp.kind = "timeout" THEN [next |-> "retry"]
    ELSE IF resp.status # HTTP_OK THEN [next |-> "return", data |-> NoData]
    ELSE [next |-> "return", data |-> resp.json]

\* GetIteration that retries an answer that is not OK instead of returning
GetIteration_retry_not_ok(resp) ==
    IF resp.kind = "timeout" THEN [next |-> "retry"]
    ELSE IF resp.status = HTTP_UNAUTHORIZED THEN [next |-> "raise", exc |-> "AuthError"]
    ELSE IF resp.status # HTTP_OK THEN [next |-> "retry"]
    ELSE [next |-> "return", data |-> resp.json]

\* one pass through the body of the while loop for the answer resp:
\* retry (the except branch), return data, or raise
\* an iteration that gives up on a timeout
GetIteration_no_retry(resp) ==
    IF resp.kind = "timeout" THEN [next |-> "return", data |-> NoData]
    ELSE IF resp.status = HTTP_UNAUTHORIZED THEN [next |-> "raise", exc |-> "AuthError"]
    ELSE IF resp.status # HTTP_OK THEN [next |-> "return", data |-> NoData]
    ELSE [next |-> "return", data |-> resp.json]

GetIteration(resp) ==
    IF resp.kind = "timeout" THEN [next |-> "retry"]
    ELSE IF resp.status = HTTP_UNAUTHORIZED THEN [next |-> "raise", exc |-> "AuthError"]
    ELSE IF resp.status # HTTP_OK THEN [next |-> "return", data |-> NoData]
    ELSE [next |-> "return", data |-> resp.json]

\* LoopContinues with < for <=
LoopContinues_strict(attempt) == attempt < max_attempts

\* the loop condition after attempt += 1
LoopContinues(attempt) == attempt <= max_attempts

----------------------------------------------------------------------------
(* Econet300Api: what each operation does once its fetch has ended with r  *)
(* (r.next = "return" with r.data, or r.next = "raise" with r.exc).        *)
(* The result is the outcome of the call and the new cache and identity.   *)

Effect(outcome, c, u, m, s, h) ==
    [outcome |-> outcome, cache |-> c, uid |-> u, model_id |-> m,
     sw_revision |-> s, hw_version |-> h]

NoEffect(outcome) == Effect(outcome, cache, uid, model_id, sw_revision, hw_version)

\* init, one of the four "if key not in sys_params ... else" statements
InitField(sys_params, key, old) ==
    IF key \notin DOMAIN sys_params THEN old ELSE sys_params[key]

\* init_rest with the software revision read from the model-id key
init_rest_wrong_key(r) ==
    IF r.next = "raise" THEN NoEffect(Raise(r.exc))
    ELSE IF r.data = NoData THEN NoEffect(ReturnNone)
    ELSE LET sys_params == r.data.body IN
         Effect(ReturnNone, cache,
                InitField(sys_params, API_SYS_PARAMS_PARAM_UID, uid),
                InitField(sys_params, API_SYS_PARAMS_PARAM_MODEL_ID, model_id),
                InitField(sys_params, API_SYS_PARAMS_PARAM_MODEL_ID, sw_revision),
                InitField(sys_params, API_SYS_PARAMS_PARAM_HW_VER, hw_version))

\* init_rest that puts the defaults back when the fetch gave no data
init_rest_reset(r) ==
    IF r.next = "raise" THEN NoEffect(Raise(r.exc))
    ELSE IF r.data = NoData
         THEN Effect(ReturnNone, cache, "default-uid", "default-model-id",
                     "default-sw-revision", "default-hw-version")
    ELSE LET sys_params == r.data.body IN
         Effect(ReturnNone, cache,
                InitField(sys_params, API_SYS_PARAMS_PARAM_UID, uid),
                InitField(sys_params, API_SYS_PARAMS_PARAM_MODEL_ID, model_id),
                InitField(sys_params, API_SYS_PARAMS_PARAM_SW_REV, sw_revision),
                InitField(sys_params, API_SYS_PARAMS_PARAM_HW_VER, hw_version))

\* init after the fetch of sysParams
init_rest(r) ==
    IF r.next = "raise" THEN NoEffect(Raise(r.exc))
    ELSE IF r.data = NoData THEN NoEffect(ReturnNone)
    ELSE LET sys_params == r.data.body IN
         Effect(ReturnNone, cache,
                InitField(sys_params, API_SYS_PARAMS_PARAM_UID, uid),
                InitField(sys_params, API_SYS_PARAMS_PARAM_MODEL_ID, model_id),
                InitField(sys_params, API_SYS_PARAMS_PARAM_SW_REV, sw_revision),
                InitField(sys_params, API_SYS_PARAMS_PARAM_HW_VER, hw_version))

\* set_param_rest that returns True on "OK" without the cache.set
set_param_rest_no_cache(param, value, r) ==
    IF r.next = "raise" THEN NoEffect(Raise(r.exc))
    ELSE IF r.data = NoData \/ "result" \notin DOMAIN r.data.body
         THEN NoEffect(Return(FALSE))
    ELSE IF r.data.body["result"] # "OK" THEN NoEffect(Return(FALSE))
    ELSE NoEffect(Return(TRUE))

\* set_param_rest with the cache.set moved before the test of the result
set_param_rest_eager(param, value, r) ==
    IF r.next = "raise" THEN NoEffect(Raise(r.exc))
    ELSE IF r.data = NoData \/ "result" \notin DOMAIN r.data.body
         THEN NoEffect(Return(FALSE))
    ELSE IF r.data.body["result"] # "OK"
         THEN Effect(Return(FALSE), CacheSet(cache, param, value),
                     uid, model_id, sw_revision, hw_version)
    ELSE Effect(Return(TRUE), CacheSet(cache, param, value),
                uid, model_id, sw_revision, hw_version)

\* set_param_rest without the test of the result against "OK"
set_param_rest_any_result(param, value, r) ==
    IF r.next = "raise" THEN NoEffect(Raise(r.exc))
    ELSE IF r.data = NoData \/ "result" \notin DOMAIN r.data.body
         THEN NoEffect(Return(FALSE))
    ELSE Effect(Return(TRUE), CacheSet(cache, param, value),
                uid, model_id, sw_revision, hw_version)

\* set_param that keeps the value already cached for the key
set_param_rest_keep_first(param, value, r) ==
    IF r.next = "raise" THEN NoEffect(Raise(r.exc))
    ELSE IF r.data = NoData \/ "result" \notin DOMAIN r.data.body
         THEN NoEffect(Return(FALSE))
    ELSE IF r.data.body["result"] # "OK" THEN NoEffect(Return(FALSE))
    ELSE Effect(Return(TRUE),
                IF CacheExists(cache, param) THEN cache ELSE CacheSet(cache, param, value),
                uid, model_id, sw_revision, hw_version)

\* set_param after the write request
set_param_rest(param, value, r) ==
    IF r.next = "raise" THEN NoEffect(Raise(r.exc))
    ELSE IF r.data = NoData \/ "result" \notin DOMAIN r.data.body
         THEN NoEffect(Return(FALSE))
    ELSE IF r.data.body["result"] # "OK" THEN NoEffect(Return(FALSE))
    ELSE Effect(Return(TRUE), CacheSet(cache, param, value),
                uid, model_id, sw_revision, hw_version)

\* _fetch_reg_key and _fetch_reg_names after the fetch, for a data_key that
\* is not None: the value under the key, or DataError
fetch_reg_key_rest(data_key, r) ==
    IF r.next = "raise" THEN Raise(r.exc)
    ELSE IF r.data = NoData THEN Raise("DataError")
    ELSE IF data_key \notin DOMAIN r.data.body THEN Raise("DataError")
    ELSE Return(r.data.body[data_key])

\* limits_lookup with min and max exchanged
limits_lookup_swapped(param, limits) ==
    IF param = None THEN ReturnNone
    ELSE IF param \notin DOMAIN limits THEN ReturnNone
    ELSE Return([min |-> limits[param].max, max |-> limits[param].min])

\* get_param_limits from "if param is None" on, for the table limits
limits_lookup(param, limits) ==
    IF param = None THEN ReturnNone
    ELSE IF param \notin DOMAIN limits THEN ReturnNone
    ELSE Return([min |-> limits[param].min, max |-> limits[param].max])

\* get_param_limits_rest without the cache.set of the fetched table
get_param_limits_rest_no_store(param, r) ==
    LET limits == fetch_reg_key_rest(API_EDITABLE_PARAMS_LIMITS_DATA, r) IN
    IF limits.kind = "raise" THEN NoEffect(limits)
    ELSE NoEffect(limits_lookup(param, limits.val))

\* get_param_limits after the bulk fetch it started
get_param_limits_rest(param, r) ==
    LET limits == fetch_reg_key_rest(API_EDITABLE_PARAMS_LIMITS_DATA, r) IN
    IF limits.kind = "raise" THEN NoEffect(limits)
    ELSE LET c == CacheSet(cache, API_EDITABLE_PARAMS_LIMITS_DATA, limits.val) IN
         Effect(limits_lookup(param, CacheGet(c, API_EDITABLE_PARAMS_LIMITS_DATA)),
                c, uid, model_id, sw_revision, hw_version)

\* fetch_param_edit_data that caches an empty table when the bulk fetch fails
fetch_param_edit_data_rest_stores_empty(r) ==
    LET limits == fetch_reg_key_rest(API_EDITABLE_PARAMS_LIMITS_DATA, r) IN
    IF limits.kind = "raise"
    THEN Effect(limits, CacheSet(cache, API_EDITABLE_PARAMS_LIMITS_DATA, EmptyObj),
                uid, model_id, sw_revision, hw_version)
    ELSE LET c == CacheSet(cache, API_EDITABLE_PARAMS_LIMITS_DATA, limits.val) IN
         Effect(Return(CacheGet(c, API_EDITABLE_PARAMS_LIMITS_DATA)),
                c, uid, model_id, sw_revision, hw_version)

\* fetch_param_edit_data after the bulk fetch it started
fetch_param_edit_data_rest(r) ==
    LET limits == fetch_reg_key_rest(API_EDITABLE_PARAMS_LIMITS_DATA, r) IN
    IF limits.kind = "raise" THEN NoEffect(limits)
    ELSE LET c == CacheSet(cache, API_EDITABLE_PARAMS_LIMITS_DATA, limits.val) IN
         Effect(Return(CacheGet(c, API_EDITABLE_PARAMS_LIMITS_DATA)),
                c, uid, model_id, sw_revision, hw_version)

\* fetch_reg_params_data_rest without the try ... except DataError
fetch_reg_params_data_rest_no_except(r) ==
    NoEffect(fetch_reg_key_rest(API_REG_PARAMS_DATA_PARAM_DATA, r))

\* fetch_reg_params_data after the fetch: DataError becomes {}
fetch_reg_params_data_rest(r) ==
    LET regParamsData == fetch_reg_key_rest(API_REG_PARAMS_DATA_PARAM_DATA, r) IN
    IF regParamsData = Raise("DataError") THEN NoEffect(Return(EmptyObj))
    ELSE NoEffect(regParamsData)

\* fetch_sys_params_rest that raises DataError for no data, as _fetch_reg_key does
fetch_sys_params_rest_raises(r) ==
    IF r.next = "raise" THEN NoEffect(Raise(r.exc))
    ELSE IF r.data = NoData THEN NoEffect(Raise("DataError"))
    ELSE NoEffect(Return(r.data.body))

\* fetch_sys_params after the fetch: the data as _get gave it
fetch_sys_params_rest(r) ==
    IF r.next = "raise" THEN NoEffect(Raise(r.exc))
    ELSE IF r.data = NoData THEN NoEffect(ReturnNone)
    ELSE NoEffect(Return(r.data.body))

\* fetch_reg_params after the fetch
fetch_reg_params_rest(r) ==
    NoEffect(fetch_reg_key_rest(API_REG_PARAMS_PARAM_DATA, r))

\* the rest of the operation of frame tk
Rest(tk, r) ==
    CASE tk.op = "init" -> init_rest(r)
      [] tk.op = "set_param" -> set_param_rest(tk.param, tk.value, r)
      [] tk.op = "get_param_limits" -> get_param_limits_rest(tk.param, r)
      [] tk.op = "fetch_param_edit_data" -> fetch_param_edit_data_rest(r)
      [] tk.op = "fetch_reg_params_data" -> fetch_reg_params_data_rest(r)
      [] tk.op = "fetch_sys_params" -> fetch_sys_params_rest(r)
      [] OTHER -> fetch_reg_params_rest(r)

----------------------------------------------------------------------------
(* History of the bulk fetches of the limits registry.                     *)

Count(n) == IF n < MaxCount THEN n + 1 ELSE MaxCount

\* a bulk fetch of the limits starts
LimitsFetchStarts ==
    /\ limits_fetches' = Count(limits_fetches)
    /\ first_limits' = IF first_limits = "none" THEN "pending" ELSE first_limits
    /\ last_limits' = "pending"
    /\ UNCHANGED <<device, last_ended>>

\* the device's answer holds the limits table
HoldsLimits(r) ==
    /\ r.next = "return"
    /\ r.data # NoData
    /\ API_EDITABLE_PARAMS_LIMITS_DATA \in DOMAIN r.data.body

\* how a bulk fetch of the limits that gave r ended
LimitsResult(r) ==
    IF HoldsLimits(r) THEN "ok"
    ELSE IF r.next = "raise" THEN "raised"
    ELSE "failed"

\* the fetch of frame tk ends with r
FetchEnds(tk, r) ==
    /\ limits_fetches' = limits_fetches
    /\ first_limits' =
         IF tk.reg = API_EDITABLE_PARAMS_LIMITS_URI /\ first_limits = "pending"
         THEN (IF HoldsLimits(r) THEN "ok" ELSE "failed")
         ELSE first_limits
    /\ last_limits' =
         IF tk.reg = API_EDITABLE_PARAMS_LIMITS_URI THEN LimitsResult(r)
         ELSE last_limits

----------------------------------------------------------------------------
(* Actions.                                                                *)

\* the host runs one call at a time (spec section 5)
CanBegin(t) == \A u \in DOMAIN task : task[u].pc = "idle"

\* Econet300Api.init up to the request of fetch_sys_params
init(t) ==
    /\ CanBegin(t)
    /\ task' = [task EXCEPT ![t] = Calling("init", None, 0, API_SYS_PARAMS_URI)]
    /\ UNCHANGED <<cache, identity, history, client>>

\* set_param without the "if param is None" test
set_param_unchecked(t, param, value) ==
    /\ CanBegin(t)
    /\ task' = [task EXCEPT ![t] = Calling("set_param", param, value, SET_PARAM_URI)]
    /\ UNCHANGED <<cache, identity, history, client>>

\* Econet300Api.set_param up to the request of EconetClient.set_param
set_param_start(t, param, value) ==
    /\ IF param = None
       THEN task' = [task EXCEPT ![t] = Ended("set_param", param, value, Return(FALSE))]
       ELSE task' = [task EXCEPT ![t] = Calling("set_param", param, value, SET_PARAM_URI)]
    /\ UNCHANGED <<cache, identity, history, client>>

\* a caller calls Econet300Api.set_param
set_param(t, param, value) ==
    /\ CanBegin(t)
    /\ set_param_start(t, param, value)

\* Econet300Api.get_param_limits: the whole call when the table is cached,
\* else up to the request of the bulk fetch
get_param_limits(t, param) ==
    /\ CanBegin(t)
    /\ IF ~CacheExists(cache, API_EDITABLE_PARAMS_LIMITS_DATA)
       THEN /\ task' = [task EXCEPT ![t] =
                   Calling("get_param_limits", param, 0, API_EDITABLE_PARAMS_LIMITS_URI)]
            /\ LimitsFetchStarts
       ELSE /\ task' = [task EXCEPT ![t] =
                   Ended("get_param_limits", param, 0,
                         limits_lookup(param, CacheGet(cache, API_EDITABLE_PARAMS_LIMITS_DATA)))]
            /\ UNCHANGED history
    /\ UNCHANGED <<cache, identity, client>>

\* Econet300Api.fetch_param_edit_data: the whole call when the table is
\* cached, else up to the request of the bulk fetch
fetch_param_edit_data(t) ==
    /\ CanBegin(t)
    /\ IF ~CacheExists(cache, API_EDITABLE_PARAMS_LIMITS_DATA)
       THEN /\ task' = [task EXCEPT ![t] =
                   Calling("fetch_param_edit_data", None, 0, API_EDITABLE_PARAMS_LIMITS_URI)]
            /\ LimitsFetchStarts
       ELSE /\ task' = [task EXCEPT ![t] =
                   Ended("fetch_param_edit_data", None, 0,
                         Return(CacheGet(cache, API_EDITABLE_PARAMS_LIMITS_DATA)))]
            /\ UNCHANGED history
    /\ UNCHANGED <<cache, identity, client>>

\* Econet300Api.fetch_reg_params_data up to the request
fetch_reg_params_data(t) ==
    /\ CanBegin(t)
    /\ task' = [task EXCEPT ![t] =
            Calling("fetch_reg_params_data", None, 0, API_REG_PARAMS_DATA_URI)]
    /\ UNCHANGED <<cache, identity, history, client>>

\* Econet300Api.fetch_sys_params up to the request
fetch_sys_params(t) ==
    /\ CanBegin(t)
    /\ task' = [task EXCEPT ![t] = Calling("fetch_sys_params", None, 0, API_SYS_PARAMS_URI)]
    /\ UNCHANGED <<cache, identity, history, client>>

\* Econet300Api.fetch_reg_params up to the request
fetch_reg_params(t) ==
    /\ CanBegin(t)
    /\ task' = [task EXCEPT ![t] = Calling("fetch_reg_params", None, 0, API_REG_PARAMS_URI)]
    /\ UNCHANGED <<cache, identity, history, client>>

\* one round trip of _get in frame t, answered by resp, and what follows it
\* up to the next request or the end of the call
RoundTrip(t, resp) ==
    LET tk == [task[t] EXCEPT !.requests = @ + 1, !.status = resp.status,
                              !.timeouts = IF resp.kind = "timeout" THEN @ + 1 ELSE @,
                              !.json = resp.json, !.applied = FALSE]
        it == GetIteration(resp)
        again == it.next = "retry" /\ LoopContinues(tk.attempt + 1)
        r == IF it.next = "retry" THEN [next |-> "return", data |-> NoData] ELSE it
        e == Rest(tk, r)
    IN  IF again
        THEN /\ task' = [task EXCEPT ![t] = [tk EXCEPT !.attempt = @ + 1]]
             /\ UNCHANGED <<cache, identity, history, client>>
        ELSE /\ task' = [task EXCEPT ![t] =
                    [tk EXCEPT !.pc = "done", !.outcome = e.outcome, !.got = r,
                               !.attempt = IF it.next = "retry" THEN @ + 1 ELSE @]]
             /\ cache' = e.cache
             /\ uid' = e.uid
             /\ model_id' = e.model_id
             /\ sw_revision' = e.sw_revision
             /\ hw_version' = e.hw_version
             /\ FetchEnds(tk, r)
             /\ last_ended' = t
             /\ UNCHANGED <<device, client>>

\* the request times out
HttpTimeout(t) ==
    /\ task[t].pc = "await"
    /\ RoundTrip(t, RespTimeout)

\* the device answers 401
HttpUnauthorized(t) ==
    /\ task[t].pc = "await"
    /\ RoundTrip(t, RespStatus(HTTP_UNAUTHORIZED, "none", NoData))

\* the device answers another status than 200 and 401; reading the body of the
\* answer gives its text or raises a ClientError, which _get catches
HttpError(t) ==
    /\ task[t].pc = "await"
    /\ \E s \in OtherStatuses, tx \in {"text", "client_error"} :
           RoundTrip(t, RespStatus(s, tx, NoData))

\* the device answers 200 with a JSON body
HttpOk(t) ==
    /\ task[t].pc = "await"
    /\ \E js \in JsonOf(task[t].reg) : RoundTrip(t, RespStatus(HTTP_OK, "none", js))

\* the caller takes the outcome of its call
Finish(t) ==
    /\ task[t].pc = "done"
    /\ task' = [task EXCEPT ![t] = IdleTask]
    /\ UNCHANGED <<cache, identity, history, client>>

\* the device before any write
NoWrites == [value |-> [k \in ParamKeys |-> 0], by |-> 0]

\* the state after EconetClient(h, ...) and Econet300Api(client, cache), with
\* the call frames of callers
InitWith(hosts, callers) ==
    /\ cache = EmptyObj
    /\ uid = "default-uid"
    /\ model_id = "default-model-id"
    /\ sw_revision = "default-sw-revision"
    /\ hw_version = "default-hw-version"
    /\ host_arg \in hosts
    /\ host = EconetClient_init(host_arg)
    /\ task = [t \in callers |-> IdleTask]
    /\ limits_fetches = 0
    /\ first_limits = "none"
    /\ last_limits = "none"
    /\ device = NoWrites
    /\ last_ended = 0

Init == InitWith({DefaultHost}, Callers)

Next ==
    \E t \in Callers :
        \/ init(t)
        \/ \E param \in Params, value \in Values : set_param(t, param, value)
        \/ \E param \in Params : get_param_limits(t, param)
        \/ fetch_param_edit_data(t)
        \/ fetch_reg_params_data(t)
        \/ fetch_sys_params(t)
        \/ fetch_reg_params(t)
        \/ HttpTimeout(t)
        \/ HttpUnauthorized(t)
        \/ HttpError(t)
        \/ HttpOk(t)
        \/ Finish(t)

Spec == Init /\ [][Next]_vars

\* the client constructed with any of the hosts, then serial calls of the
\* operations that fetch the system parameters or write a parameter
InitHost == InitWith(Hosts, Callers)

NextHost ==
    \E t \in Callers :
        \/ init(t)
        \/ \E param \in Params, value \in Values : set_param(t, param, value)
        \/ fetch_sys_params(t)
        \/ HttpTimeout(t)
        \/ HttpUnauthorized(t)
        \/ HttpError(t)
        \/ HttpOk(t)
        \/ Finish(t)

SpecHost == InitHost /\ [][NextHost]_vars

\* Two calls of set_param for one mapped key that may overlap: each is
\* suspended at the await of its round trip while the other runs.  The
\* device applies the write of a request when the request arrives, and
\* answers it afterwards; a request or its answer may be lost, which the
\* call sees as a timeout.
Writers == {1, 2}
OverlapKey == "1280"

InitOverlap == InitWith({DefaultHost}, Writers)

\* frame t calls set_param for the key, whatever the other frame is doing
set_param_overlapping(t, value) ==
    /\ task[t].pc = "idle"
    /\ set_param_start(t, OverlapKey, value)

\* the request in flight of t arrives: the device applies its write
DeviceApplies(t) ==
    /\ task[t].pc = "await"
    /\ ~task[t].applied
    /\ device' = [value |-> [device.value EXCEPT ![task[t].param] = task[t].value],
                  by |-> t]
    /\ task' = [task EXCEPT ![t].applied = TRUE]
    /\ UNCHANGED <<cache, identity, limits_history, last_ended, client>>

\* the answer {"result": "OK"} of the applied write of t is handled
WriteAnswered(t) ==
    /\ task[t].pc = "await"
    /\ task[t].applied
    /\ RoundTrip(t, RespStatus(HTTP_OK, "none", Json([result |-> "OK"])))

NextOverlap ==
    \E t \in Writers :
        \/ \E value \in Values : set_param_overlapping(t, value)
        \/ DeviceApplies(t)
        \/ WriteAnswered(t)
        \/ HttpTimeout(t)

SpecOverlap == InitOverlap /\ [][NextOverlap]_vars

----------------------------------------------------------------------------
(* Properties of EconetClient._get.                                        *)

\* a frame whose call has ended
Done(t) == task[t].pc = "done"

\* C1: a call of _get in which every request timed out has issued exactly 5
\* requests when it ends, and it ends by returning None, not by raising; no
\* call ever issues more than 5 requests.
C1_TimeoutsExhaust ==
    \A t \in Callers :
        /\ task[t].requests <= 5
        /\ (Done(t) /\ task[t].requests > 0 /\ task[t].timeouts = task[t].requests)
             => /\ task[t].requests = 5
                /\ task[t].got = [next |-> "return", data |-> NoData]

\* a call has ended after five requests that all timed out
C1_Witness ==
    \E t \in Callers : Done(t) /\ task[t].timeouts = 5 /\ task[t].requests = 5

\* C2: once a request of _get is answered 401 the call has ended, _get has
\* raised AuthError, and the 401 request is the last one: the requests are the
\* timed-out ones before it and itself (one request when the first is 401).
C2_UnauthorizedRaises ==
    \A t \in Callers :
        task[t].status = 401
            => /\ Done(t)
               /\ task[t].got = [next |-> "raise", exc |-> "AuthError"]
               /\ task[t].requests = task[t].timeouts + 1

\* the first request of a call was answered 401
C2_Witness ==
    \E t \in Callers : task[t].status = 401 /\ task[t].requests = 1

----------------------------------------------------------------------------
(* Properties of Econet300Api.set_param.                                   *)

\* the step ends the call of frame t
Ends(t) == task[t].pc # "done" /\ task'[t].pc = "done"

\* the write of frame f was answered 200 with result "OK"
AnsweredOk(f) ==
    /\ f.status = 200
    /\ f.got.next = "return"
    /\ f.got.data # NoData
    /\ "result" \in DOMAIN f.got.data.body
    /\ f.got.data.body["result"] = "OK"

\* the cache entry of key as a sequence: empty when the key is not cached
Entry(c, key) == IF key \in DOMAIN c THEN <<c[key]>> ELSE <<>>

\* C4: a step in which set_param is called with param None ends the call at
\* once: it returns False, no request has been issued, the cache is unchanged.
C4_UnmappedKeyFailsFast ==
    [][\A t \in Callers :
          (task[t].pc = "idle" /\ task'[t].op = "set_param" /\ task'[t].param = None)
              => /\ task'[t].pc = "done"
                 /\ task'[t].outcome = Return(FALSE)
                 /\ task'[t].requests = 0
                 /\ cache' = cache]_vars

\* set_param(None, value) has ended while the cache holds an entry
C4_Witness ==
    \E t \in Callers :
        /\ Done(t) /\ task[t].op = "set_param" /\ task[t].param = None
        /\ \E k \in ParamKeys : CacheExists(cache, k)

\* C5: when set_param(key, value) with a mapped key has ended and its write
\* was answered 200 with result "OK", it has returned True and the cache has
\* the key with the value written.
C5_OkIsCached ==
    \A t \in Callers :
        (Done(t) /\ task[t].op = "set_param" /\ task[t].param # None
                 /\ AnsweredOk(task[t]))
            => /\ task[t].outcome = Return(TRUE)
               /\ CacheExists(cache, task[t].param)
               /\ CacheGet(cache, task[t].param) = task[t].value

\* a write of value 2 answered "OK" on the third request has ended
C5_Witness ==
    \E t \in Callers :
        /\ Done(t) /\ task[t].op = "set_param" /\ AnsweredOk(task[t])
        /\ task[t].value = 2 /\ task[t].requests = 3

\* C6: a step that ends a set_param call whose write was not answered 200 with
\* result "OK" leaves the cache as it was; and the cache entry of a parameter
\* key changes only in a step that ends a set_param call for that key whose
\* write was answered "OK", and becomes the value of that call.
C6_CacheOnlyAfterOk ==
    [][/\ \A t \in Callers :
             (Ends(t) /\ task'[t].op = "set_param" /\ ~AnsweredOk(task'[t]))
                 => cache' = cache
       /\ \A k \in ParamKeys :
             Entry(cache', k) # Entry(cache, k)
                 => \E t \in Callers :
                       /\ Ends(t) /\ task'[t].op = "set_param" /\ task'[t].param = k
                       /\ AnsweredOk(task'[t])
                       /\ Entry(cache', k) = <<task'[t].value>>]_vars

\* a write answered with another result than "OK" has ended and the cache
\* still holds the other value for the key
C6_Witness ==
    \E t \in Callers :
        /\ Done(t) /\ task[t].op = "set_param" /\ task[t].param # None
        /\ task[t].status = 200 /\ task[t].got.data = Json([result |-> "ERROR"])
        /\ CacheExists(cache, task[t].param)
        /\ CacheGet(cache, task[t].param) # task[t].value

\* C7 as stated: set_param with a mapped key has returned False whenever its
\* write was not answered 200 with result "OK".
C7_Original ==
    \A t \in Callers :
        (Done(t) /\ task[t].op = "set_param" /\ task[t].param # None
                 /\ ~AnsweredOk(task[t]))
            => task[t].outcome = Return(FALSE)

\* C7 amended: set_param with a mapped key whose write was not answered 200
\* with result "OK" has raised AuthError when the write was answered 401 and
\* has returned False in every other case.
C7_FalseUnlessOkOr401 ==
    \A t \in Callers :
        (Done(t) /\ task[t].op = "set_param" /\ task[t].param # None
                 /\ ~AnsweredOk(task[t]))
            => IF task[t].status = 401
               THEN task[t].outcome = Raise("AuthError")
               ELSE task[t].outcome = Return(FALSE)

\* a write answered 200 with result "ERROR" has ended
C7_Witness ==
    \E t \in Callers :
        /\ Done(t) /\ task[t].op = "set_param" /\ task[t].param # None
        /\ task[t].status = 200 /\ task[t].got.data = Json([result |-> "ERROR"])
        /\ task[t].outcome = Return(FALSE)

----------------------------------------------------------------------------
(* Properties of Econet300Api.get_param_limits.                            *)

\* the limits table in the cache
CachedLimits == CacheGet(cache, API_EDITABLE_PARAMS_LIMITS_DATA)

\* C8: when the first bulk fetch of the limits has succeeded, one bulk fetch
\* has been issued, whatever calls came after it.
C8_OneBulkFetch ==
    first_limits = "ok" => limits_fetches = 1

\* after a first bulk fetch that succeeded, get_param_limits for the other key
\* has ended without a request
C8_Witness ==
    \E t \in Callers :
        /\ first_limits = "ok" /\ limits_fetches = 1
        /\ Done(t) /\ task[t].op = "get_param_limits" /\ task[t].requests = 0
        /\ task[t].param = "1281"

\* the call of frame t had the table: from the cache, or from its bulk fetch
HadLimits(t) == task[t].requests = 0 \/ HoldsLimits(task[t].got)

\* what get_param_limits is to return for param from the table limits
Looked(param, limits) ==
    IF param # None /\ param \in DOMAIN limits
    THEN Return([min |-> limits[param].min, max |-> limits[param].max])
    ELSE ReturnNone

\* C9 as stated: get_param_limits has returned None for a key that is None or
\* not in the limits table, and the table's (min, max) for a key in it,
\* whatever the bulk fetch of the call gave.
C9_Original ==
    \A t \in Callers :
        (Done(t) /\ task[t].op = "get_param_limits")
            => IF CacheExists(cache, API_EDITABLE_PARAMS_LIMITS_DATA)
               THEN task[t].outcome = Looked(task[t].param, CachedLimits)
               ELSE task[t].outcome = ReturnNone

\* C9 amended: a get_param_limits call that had the table (cached before, or
\* given by its bulk fetch, which is then the cached table) has returned None
\* for a key that is None or not in the table and the table's (min, max) for a
\* key in it; a call whose bulk fetch failed has raised, whatever the key:
\* AuthError on 401, DataError otherwise.
C9_LookupOrRaise ==
    \A t \in Callers :
        (Done(t) /\ task[t].op = "get_param_limits")
            => IF HadLimits(t)
               THEN /\ CacheExists(cache, API_EDITABLE_PARAMS_LIMITS_DATA)
                    /\ task[t].requests > 0
                         => CachedLimits = task[t].got.data.body[API_EDITABLE_PARAMS_LIMITS_DATA]
                    /\ task[t].outcome = Looked(task[t].param, CachedLimits)
               ELSE task[t].outcome =
                        Raise(IF task[t].status = 401 THEN "AuthError" ELSE "DataError")

\* get_param_limits for a key of the table it has just fetched has ended
C9_Witness ==
    \E t \in Callers :
        /\ Done(t) /\ task[t].op = "get_param_limits" /\ task[t].requests > 0
        /\ HoldsLimits(task[t].got)
        /\ task[t].param = "1281"
        /\ task[t].outcome = Return([min |-> 5, max |-> 20])

----------------------------------------------------------------------------
(* Properties of Econet300Api.init.                                        *)

\* the frame's fetch gave a JSON object
GotObject(f) == f.got.next = "return" /\ f.got.data # NoData

\* C10 as stated: when init has ended and its sysParams answer was an object,
\* every identity field whose key is in the answer has the answer's value and
\* every other identity field has its default string.
C10_Original ==
    \A t \in Callers :
        (Done(t) /\ task[t].op = "init" /\ GotObject(task[t]))
            => LET sys_params == task[t].got.data.body
                   F(key, default) ==
                       IF key \in DOMAIN sys_params THEN sys_params[key] ELSE default
               IN  /\ uid = F(API_SYS_PARAMS_PARAM_UID, "default-uid")
                   /\ model_id = F(API_SYS_PARAMS_PARAM_MODEL_ID, "default-model-id")
                   /\ sw_revision = F(API_SYS_PARAMS_PARAM_SW_REV, "default-sw-revision")
                   /\ hw_version = F(API_SYS_PARAMS_PARAM_HW_VER, "default-hw-version")

\* C10 amended: a step that ends init with a sysParams answer that is an
\* object sets every identity field whose key is in the answer to the answer's
\* value and leaves every other identity field as it was before the call.
C10_PresentSetAbsentKept ==
    [][\A t \in Callers :
          (Ends(t) /\ task'[t].op = "init" /\ GotObject(task'[t]))
              => LET sys_params == task'[t].got.data.body
                     F(key, old) ==
                         IF key \in DOMAIN sys_params THEN sys_params[key] ELSE old
                 IN  /\ uid' = F(API_SYS_PARAMS_PARAM_UID, uid)
                     /\ model_id' = F(API_SYS_PARAMS_PARAM_MODEL_ID, model_id)
                     /\ sw_revision' = F(API_SYS_PARAMS_PARAM_SW_REV, sw_revision)
                     /\ hw_version' = F(API_SYS_PARAMS_PARAM_HW_VER, hw_version)]_vars

\* init has ended on an initialized facade with an answer of the other device
\* that lacks the hardware version: the old hardware version stays
C10_Witness ==
    \E t \in Callers :
        /\ Done(t) /\ task[t].op = "init" /\ GotObject(task[t])
        /\ API_SYS_PARAMS_PARAM_HW_VER \notin DOMAIN task[t].got.data.body
        /\ uid = "uid-y" /\ sw_revision = "sw-y" /\ hw_version = "hw-x"

----------------------------------------------------------------------------
(* Properties of the facade as a whole.                                    *)

\* _get gave a JSON object that has key
HoldsKey(r, key) ==
    r.next = "return" /\ r.data # NoData /\ key \in DOMAIN r.data.body

\* the operations that let the DataError of their fetch pass, and the key
\* each takes from the envelope
DataErrorOps == {"get_param_limits", "fetch_param_edit_data", "fetch_reg_params"}
EnvelopeKey(op) ==
    IF op = "fetch_reg_params" THEN API_REG_PARAMS_PARAM_DATA
    ELSE API_EDITABLE_PARAMS_LIMITS_DATA

\* C11 as stated: no facade operation has ended by raising.
C11_Original ==
    \A t \in Callers : Done(t) => task[t].outcome.kind # "raise"

\* C11 amended: a facade operation has ended by raising in two cases only:
\* AuthError when its request was answered 401 (every operation), and
\* DataError when the fetch of get_param_limits, fetch_param_edit_data or
\* fetch_reg_params gave no data or an envelope without the key; in every
\* other case the operation has returned.
C11_RaisesOnlyAuthOrData ==
    \A t \in Callers :
        Done(t) =>
            IF task[t].status = 401
            THEN task[t].outcome = Raise("AuthError")
            ELSE IF /\ task[t].op \in DataErrorOps
                    /\ task[t].requests > 0
                    /\ ~HoldsKey(task[t].got, EnvelopeKey(task[t].op))
            THEN task[t].outcome = Raise("DataError")
            ELSE task[t].outcome.kind \in {"return", "return_none"}

\* fetch_sys_params has ended after five timed-out requests by returning None
C11_Witness ==
    \E t \in Callers :
        /\ Done(t) /\ task[t].op = "fetch_sys_params" /\ task[t].timeouts = 5
        /\ task[t].outcome = ReturnNone

\* C12: the identity fields change only in a step that ends init with a
\* sysParams answer that is an object: no step of another operation changes
\* them, and neither does an init whose fetch gave no data or raised.
C12_IdentityOnlyByInit ==
    [][identity' # identity
          => \E t \in Callers :
                Ends(t) /\ task'[t].op = "init" /\ GotObject(task'[t])]_vars

\* on an initialized facade an init whose fetch gave no data has ended
C12_Witness ==
    \E t \in Callers :
        /\ Done(t) /\ task[t].op = "init" /\ task[t].status = 500
        /\ uid = "uid-x" /\ hw_version = "hw-x"

\* C13: a step that ends fetch_reg_params_data after a fetch that returned
\* (data or None) returns the value under the register-data key when the data
\* is an object with that key and the empty mapping otherwise, never raising
\* DataError, and leaves the cache as it was.
C13_RegParamsData ==
    [][\A t \in Callers :
          (Ends(t) /\ task'[t].op = "fetch_reg_params_data"
                   /\ task'[t].got.next = "return")
              => /\ task'[t].outcome =
                       IF HoldsKey(task'[t].got, API_REG_PARAMS_DATA_PARAM_DATA)
                       THEN Return(task'[t].got.data.body[API_REG_PARAMS_DATA_PARAM_DATA])
                       ELSE Return(EmptyObj)
                 /\ cache' = cache]_vars

\* fetch_reg_params_data has ended with {} for an envelope without the key,
\* while the cache holds entries
C13_Witness ==
    \E t \in Callers :
        /\ Done(t) /\ task[t].op = "fetch_reg_params_data" /\ task[t].status = 200
        /\ task[t].got.data = Json(EmptyObj)
        /\ task[t].outcome = Return(EmptyObj)
        /\ DOMAIN cache # {}

----------------------------------------------------------------------------
\* the smaller of two numbers
Least(a, b) == IF a <= b THEN a ELSE b

\* what C15 says of every frame f apart from the value returned on a 200
RequestsBounded(f) ==
    /\ f.requests <= max_attempts
    /\ f.pc = "await" => f.requests < max_attempts /\ f.requests = f.timeouts
    /\ f.pc = "done" /\ f.requests > 0 =>
           f.requests = Least(f.timeouts + 1, max_attempts)

\* C15 as stated: a call that ended on a 200 returned the parsed body of that
\* answer, and what it returned is not None
C15_Original ==
    \A t \in DOMAIN task :
        /\ RequestsBounded(task[t])
        /\ Done(t) /\ task[t].status = HTTP_OK =>
               /\ task[t].got = [next |-> "return", data |-> task[t].json]
               /\ task[t].got.data # NoData

\* C15: whatever the attempts of one _get call answer, the call issues at
\* most 5 requests and is still running only while every request so far
\* timed out and fewer than 5 were issued; once it has ended after issuing
\* requests, their number is the number of leading timeouts plus one, capped
\* at 5; and when the first answer that is not a timeout is a 200, at
\* request k <= 5, _get returns what resp.json() gave for that very answer,
\* never an earlier one: the parsed body, which is None when the body is the
\* JSON value null.
C15_BoundedRetries ==
    \A t \in DOMAIN task :
        /\ RequestsBounded(task[t])
        /\ Done(t) /\ task[t].status = HTTP_OK =>
               /\ task[t].got = [next |-> "return", data |-> task[t].json]
               /\ task[t].requests = task[t].timeouts + 1
               /\ task[t].requests <= max_attempts

\* a call that got a 200 with the body null at its fourth request, after
\* three timeouts, and returned None
C15_Witness ==
    \E t \in DOMAIN task :
        /\ Done(t) /\ task[t].status = HTTP_OK
        /\ task[t].timeouts = 3 /\ task[t].requests = 4
        /\ task[t].json = NoData
        /\ task[t].got = [next |-> "return", data |-> NoData]

----------------------------------------------------------------------------
\* the operations that read the limits table
LimitsOps == {"get_param_limits", "fetch_param_edit_data"}

\* the step ends a call of t whose bulk fetch of the limits failed: _get
\* returned, with no data or with an envelope without the limits key
LimitsFetchFails(t) ==
    /\ Ends(t)
    /\ task'[t].op \in LimitsOps
    /\ task'[t].requests > 0
    /\ task'[t].got.next = "return"
    /\ ~HoldsLimits(task'[t].got)

\* the step begins a call of one of the two operations in frame t
LimitsCallBegins(t) ==
    /\ task[t].pc = "idle"
    /\ task'[t].pc # "idle"
    /\ task'[t].op \in LimitsOps

\* C16: a step that ends get_param_limits or fetch_param_edit_data after a
\* failed bulk fetch (no data, or an envelope without the limits key) leaves
\* the cache as it was, with no entry under the limits key, and the call ends
\* with DataError; and a step that begins either operation when the latest
\* bulk fetch failed suspends the call at the request of a new bulk fetch.
C16_FailedFetchNotCached ==
    [][\A t \in Callers :
          /\ LimitsFetchFails(t) =>
                /\ task'[t].outcome = Raise("DataError")
                /\ cache' = cache
                /\ ~CacheExists(cache', API_EDITABLE_PARAMS_LIMITS_DATA)
                /\ last_limits' = "failed"
          /\ LimitsCallBegins(t) /\ last_limits = "failed" =>
                /\ task'[t].pc = "await"
                /\ task'[t].reg = API_EDITABLE_PARAMS_LIMITS_URI
                /\ task'[t].url = RegUrl(API_EDITABLE_PARAMS_LIMITS_URI)
                /\ task'[t].requests = 0
                /\ limits_fetches' = Count(limits_fetches)
                /\ last_limits' = "pending"]_vars

\* a second bulk fetch in flight after a first one that failed
C16_Witness ==
    \E t \in DOMAIN task :
        /\ task[t].pc = "await"
        /\ task[t].op \in LimitsOps
        /\ task[t].reg = API_EDITABLE_PARAMS_LIMITS_URI
        /\ first_limits = "failed"
        /\ last_limits = "pending"
        /\ limits_fetches = 2
        /\ ~CacheExists(cache, API_EDITABLE_PARAMS_LIMITS_DATA)

----------------------------------------------------------------------------
\* C14: the stored host is "http://" followed by the host given when the
\* host given contains neither "http://" nor "https://", and the host given
\* itself when that starts with "http://" or "https://"; and the URL of every
\* request issued by the client's fetch_sys_params and set_param begins with
\* the stored host, followed by the path /econet/.
C14_HostNormalised ==
    /\ ~Contains(HTTP, host_arg) /\ ~Contains(HTTPS, host_arg) =>
           host = HTTP \o host_arg
    /\ StartsWith(HTTP, host_arg) \/ StartsWith(HTTPS, host_arg) =>
           host = host_arg
    /\ \A t \in DOMAIN task :
           task[t].pc = "await" \/ task[t].requests > 0 =>
               /\ StartsWith(host, task[t].url)
               /\ task[t].url[Len(host) + 1] = "/econet/"
               /\ Len(task[t].url) > Len(host) + 1

\* a write was requested of a client constructed with https://a
C14_Witness ==
    \E t \in DOMAIN task :
        /\ task[t].requests > 0
        /\ task[t].op = "set_param"
        /\ host_arg = HTTPS \o <<"a">>
        /\ host = host_arg
        /\ task[t].url = HTTPS \o <<"a", "/econet/", SET_PARAM_URI, "?newParamKey=",
                                    "1280", "&newParamValue=", "2">>

----------------------------------------------------------------------------
\* both calls of set_param for the key have completed with the result "OK"
BothOk ==
    \A t \in Writers :
        /\ Done(t) /\ task[t].op = "set_param" /\ task[t].param = OverlapKey
        /\ AnsweredOk(task[t]) /\ task[t].outcome = Return(TRUE)

\* C17 as stated: after both calls have completed with the result "OK", the
\* value cached for the key is the value the device applied last
C17_Original ==
    BothOk => Entry(cache, OverlapKey) = <<device.value[OverlapKey]>>

\* C17: after two calls of set_param for one mapped key, overlapping or not,
\* have both completed with the result "OK", the value cached for the key is
\* the value of the call whose answer was handled last; it is the value the
\* device applied last when the device also applied the write of that call
\* last.
C17_LastHandledWins ==
    BothOk =>
        /\ last_ended \in Writers
        /\ Entry(cache, OverlapKey) = <<task[last_ended].value>>
        /\ device.value[OverlapKey] = task[device.by].value
        /\ device.by = last_ended =>
               Entry(cache, OverlapKey) = <<device.value[OverlapKey]>>

\* both calls completed with "OK"; the device applied the write of frame 2
\* last, the answer of frame 1 was handled last, and the cache holds the
\* value of frame 1, which the device no longer has
C17_Witness ==
    /\ BothOk
    /\ device.by = 2 /\ last_ended = 1
    /\ task[1].value = 1 /\ task[2].value = 2
    /\ Entry(cache, OverlapKey) = <<1>>
    /\ device.value[OverlapKey] = 2

====
